---------------------------- MODULE Spec2Model ----------------------------
(***************************************************************************)
(* A model of tuf/scripts/repo.py: the command-line interface that creates *)
(* and modifies a TUF repository.  Every invocation of repo.py is a fresh  *)
(* process: it parses its arguments, runs the flagged actions in the order *)
(* of process_arguments, and each action loads the repository from the     *)
(* staged metadata directory, mutates the in-memory role database, writes  *)
(* metadata to the staged directory and finally copies the staged          *)
(* directory over the live one (write_to_live_repo).                       *)
(*                                                                         *)
(* The directories tufrepo/metadata.staged and tufrepo/metadata are        *)
(* functions from the role names that have a file there to the document    *)
(* stored in it.  The calls into tuf.repository_tool, tuf.roledb and       *)
(* tuf.keydb (not part of scripts/repo.py) follow sections 3 and 4 of the  *)
(* specification.                                                          *)
(***************************************************************************)
EXTENDS Integers, Sequences, FiniteSets, TLC

VARIABLES
  staged,    \* tufrepo/metadata.staged: role name -> document
  live,      \* tufrepo/metadata: role name -> document
  keystore,  \* tufkeystore: the top-level key files present
  client,    \* TRUE when tufclient exists
  roledb,    \* tuf.roledb of the running (or last) process: role name -> roleinfo
  keydb,     \* tuf.keydb of the running (or last) process: keyid -> "public" | "private"
  dirty,     \* the roles marked dirty in roledb
  args,      \* parsed_arguments of the running process
  pc,        \* "idle" | "dispatch" | "rmtree" | "copytree" | "exit" | "killed"
  cur,       \* index in ActionOrder of the action last started (0: none yet)
  outcome,   \* of the action last started: "none" | "ok" | "error" | "crash" | "killed"
  exitcode,  \* exit code of the process (-1: it has not exited)
  pre,       \* the metadata directories as the action last started found them
  start,     \* the metadata directories as the process found them
  ncmds,     \* number of processes started so far
  nkills,    \* number of processes killed so far
  writes     \* the roles the action last started wrote to staging, in order

vars == <<staged, live, keystore, client, roledb, keydb, dirty, args, pc, cur,
          outcome, exitcode, pre, start, ncmds, nkills, writes>>

-----------------------------------------------------------------------------
(* Bounds of the model. *)

\* Processes (invocations of repo.py) in one behaviour.
MaxCmds == 3

\* Largest version number a document reaches.
MaxVersion == 4

\* Processes killed in one behaviour.
MaxKills == 1

\* Files shutil.copytree has copied, at most, when the process is killed.
MaxCopied == 1

\* Signatures attached to one document.
MaxSigs == 3

-----------------------------------------------------------------------------
(* Names, keys and files. *)

TopLevel == {"root", "targets", "snapshot", "timestamp"}

\* Names a caller may give to delegated roles.
DelegNames == {"dist", "sub"}

RoleNames == TopLevel \cup DelegNames

\* The order in which directory listings and role tables are walked.
RoleOrder == <<"root", "targets", "dist", "sub", "snapshot", "timestamp">>

SUPPORTED_KEY_TYPES == {"ed25519", "ecdsa-sha2-nistp256", "rsa"}

ROOT_KEY_NAME == "root_key"
TARGETS_KEY_NAME == "targets_key"
SNAPSHOT_KEY_NAME == "snapshot_key"
TIMESTAMP_KEY_NAME == "timestamp_key"

TopKeyFiles == {ROOT_KEY_NAME, TARGETS_KEY_NAME, SNAPSHOT_KEY_NAME, TIMESTAMP_KEY_NAME}

\* Key files a caller holds outside the keystore: two good ed25519 keys, a
\* password-protected RSA private PEM, a key of an unsupported type, a text
\* file that is no key at all, and a file that is not UTF-8 text.
UserKeyFiles == {"k1", "k2", "pem", "dsa", "junk", "bin"}

\* What a key file holds: the format of the private key file, the key type
\* and the key identifier.
KeyFile(path) ==
  CASE path \in TopKeyFiles ->
         [fmt |-> "enc", keytype |-> "ecdsa-sha2-nistp256", keyid |-> path]
    [] path \in {"k1", "k2"} ->
         [fmt |-> "enc", keytype |-> "ed25519", keyid |-> path]
    [] path = "pem" ->
         [fmt |-> "pem", keytype |-> "rsa", keyid |-> path]
    [] path = "dsa" ->
         [fmt |-> "enc", keytype |-> "dsa", keyid |-> path]
    [] path = "bin" ->
         [fmt |-> "binary", keytype |-> "none", keyid |-> path]
    [] OTHER ->
         [fmt |-> "junk", keytype |-> "none", keyid |-> path]

\* Whether the file exists: keystore files once generated, a caller's files always.
FileExists(path, ks) == path \in ks \/ path \in UserKeyFiles

\* Target paths and glob patterns are sequences of characters.
Paths == {<<"a">>, <<"b">>}

\* A path given to --add at which there is no file (os.path.exists, line 516).
MissingFile == <<"c">>

Empty == [x \in {} |-> x]

Put(f, k, v) == [x \in DOMAIN f \cup {k} |-> IF x = k THEN v ELSE f[x]]

Del(f, ks) == [x \in DOMAIN f \ ks |-> f[x]]

Range(s) == {s[i] : i \in DOMAIN s}

\* list.append(x) guarded by "if x not in list".
AppendNew(s, x) == IF x \in Range(s) THEN s ELSE Append(s, x)

-----------------------------------------------------------------------------
(* Importing keys. *)

\* The outcome of a step that may raise: err is "none", "Error" (a
\* tuf.exceptions.Error, which __main__ catches) or "crash" (any other
\* exception, which ends the process with a traceback).
NoKey == [err |-> "none", keyid |-> "", keytype |-> ""]

Raise(e) == [NoKey EXCEPT !.err = e]

\* securesystemslib.keys.decrypt_key: the key of a file in the default
\* encrypted format, given the right password; CryptoError otherwise.
decrypt_key(file, pwok) ==
  IF file.fmt = "enc" /\ pwok
    THEN [err |-> "none", keyid |-> file.keyid, keytype |-> file.keytype]
    ELSE Raise("CryptoError")

\* securesystemslib.keys.import_rsakey_from_private_pem: the key of a
\* private PEM file, given the right password; CryptoError otherwise.
import_rsakey_from_private_pem(file, pwok) ==
  IF file.fmt = "pem" /\ pwok
    THEN [err |-> "none", keyid |-> file.keyid, keytype |-> file.keytype]
    ELSE Raise("CryptoError")

\* The first attempt, lines 335-338: encrypted_key.decode('utf-8') raises
\* UnicodeDecodeError for a file that is not UTF-8 text.
Decrypted(file, pwok) ==
  IF file.fmt = "binary" THEN Raise("crash") ELSE decrypt_key(file, pwok)

\* An except clause that catches every exception.
CaughtWhatever(attempt) == attempt.err # "none"

\* except securesystemslib.exceptions.CryptoError, lines 339 and 346.
Caught(attempt) == attempt.err = "CryptoError"

\* The try/except of import_privatekey_from_file, lines 335-351.
ParseAttempts(file, pwok) ==
  LET first == Decrypted(file, pwok)
      second == import_rsakey_from_private_pem(file, pwok)
  IN  IF first.err = "none" \/ ~Caught(first) THEN first
      ELSE IF second.err = "none" \/ ~Caught(second) THEN second
      ELSE Raise("Error")

\* A check that lets a key of any type through.
AnyKeyType(key_object) == key_object

\* The key type check of lines 353-363 and 372-378.
CheckKeyType(key_object) ==
  IF key_object.err # "none" THEN key_object
  ELSE IF key_object.keytype \notin SUPPORTED_KEY_TYPES THEN Raise("Error")
  ELSE key_object

\* keypath "None" is an unset --sign: open(None) raises TypeError.
import_privatekey_from_file(keypath, pwok, ks) ==
  IF ~FileExists(keypath, ks) THEN Raise("crash")
  ELSE CheckKeyType(ParseAttempts(KeyFile(keypath), pwok))

\* load_json_file and format_metadata_to_key raise securesystemslib errors
\* (not tuf.exceptions.Error) for a missing or malformed file.
import_publickey_from_file(keypath, ks) ==
  IF ~FileExists(keypath, ks) \/ KeyFile(keypath).fmt \in {"junk", "binary"}
    THEN Raise("crash")
  ELSE CheckKeyType([err |-> "none", keyid |-> KeyFile(keypath).keyid,
                     keytype |-> KeyFile(keypath).keytype])

-----------------------------------------------------------------------------
(* Documents and the role database. *)

\* Version of a top-level role that create_new_repository has just made.
InitialVersion == 0

\* Version of a delegated role that delegate or sign_role has just made.
NewRoleVersion == 1

\* A roleinfo without a 'threshold' entry (the one sign_role builds).
NoThreshold == 0

\* The path map of a role maps each claimed path to its custom metadata.
NewRoleinfo(keyids, threshold, version) ==
  [keyids |-> keyids, signing_keyids |-> <<>>, threshold |-> threshold,
   paths |-> Empty, signatures |-> <<>>, version |-> version, delegations |-> <<>>]

\* The names a delegations table delegates to.
Delegatees(delegations) == {delegations[i].name : i \in DOMAIN delegations}

\* The document a role is serialized to.  Root carries the key and
\* threshold assignment of the top-level roles, snapshot the version of
\* every role but itself and timestamp, timestamp the version of snapshot.
MakeDoc(db, r) ==
  [version |-> db[r].version,
   signatures |-> db[r].signatures,
   paths |-> db[r].paths,
   delegations |-> db[r].delegations,
   roles |-> IF r = "root"
               THEN [t \in TopLevel \cap DOMAIN db |->
                       [keyids |-> db[t].keyids, threshold |-> db[t].threshold]]
               ELSE Empty,
   meta |-> IF r = "snapshot"
              THEN [x \in DOMAIN db \ {"snapshot", "timestamp"} |-> db[x].version]
            ELSE IF r = "timestamp"
              THEN [x \in {"snapshot"} \cap DOMAIN db |-> db[x].version]
            ELSE Empty]

\* The state of a running action: the role and key databases, the dirty
\* roles, the staged directory, the error raised so far, and the number of
\* writes to the staged directory left before one fails (0: none fails).
\* An action starts with the databases the process holds.
Entering(st, io) ==
  [roledb |-> roledb, keydb |-> keydb, dirty |-> dirty, staged |-> st,
   err |-> "none", io |-> io, writes |-> <<>>]

Fail(ps, e) == [ps EXCEPT !.err = e]

-----------------------------------------------------------------------------
(* tuf.repository_tool, tuf.roledb and tuf.keydb, as the actions use them. *)

Min(S) == CHOOSE x \in S : \A y \in S : x <= y

\* The delegated roles of tree f (documents or roleinfos) that a chain of
\* delegations starting at targets reaches, after n more rounds.
RECURSIVE ReachFrom(_, _, _)
ReachFrom(f, seen, n) ==
  IF n = 0 THEN seen
  ELSE ReachFrom(f,
         seen \cup {c \in DOMAIN f \cap DelegNames :
                      \E p \in (seen \cup {"targets"}) \cap DOMAIN f :
                        c \in Delegatees(f[p].delegations)},
         n - 1)

Reachable(f) == ReachFrom(f, {}, Cardinality(DelegNames))

\* The delegation entry that gives role c its keys and threshold in tree f:
\* the first entry naming c in the first role, in RoleOrder, delegating to it.
EntryFor(f, c) ==
  LET from == {i \in DOMAIN RoleOrder :
                 /\ RoleOrder[i] \in (Reachable(f) \cup {"targets"}) \cap DOMAIN f
                 /\ c \in Delegatees(f[RoleOrder[i]].delegations)}
      tab == f[RoleOrder[Min(from)]].delegations
  IN  tab[Min({j \in DOMAIN tab : tab[j].name = c})]

\* The key identifiers and threshold role r is verified with in a metadata
\* directory: root's assignment for a top-level role, the delegating
\* role's entry for a delegated one, nothing for a role nobody delegates to.
Assignment(tree, r) ==
  IF r \in TopLevel
    THEN IF "root" \in DOMAIN tree /\ r \in DOMAIN tree["root"].roles
           THEN tree["root"].roles[r]
           ELSE [keyids |-> <<>>, threshold |-> NoThreshold]
  ELSE IF r \in Reachable(tree)
    THEN [keyids |-> EntryFor(tree, r).keyids, threshold |-> EntryFor(tree, r).threshold]
  ELSE [keyids |-> <<>>, threshold |-> NoThreshold]

\* The role database load_repository builds from the staged directory.
\* Signatures are produced anew by the keys a process loads.
LoadRoleinfo(st, r) ==
  [keyids |-> Assignment(st, r).keyids, signing_keyids |-> <<>>,
   threshold |-> Assignment(st, r).threshold, paths |-> st[r].paths,
   signatures |-> <<>>, version |-> st[r].version,
   delegations |-> st[r].delegations]

LoadKeydb(db) ==
  LET ids == UNION {Range(db[r].keyids) : r \in DOMAIN db}
               \cup UNION {UNION {Range(db[r].delegations[i].keyids) :
                                    i \in DOMAIN db[r].delegations} : r \in DOMAIN db}
  IN  [k \in ids |-> "public"]

load_repository(ps) ==
  IF ps.err # "none" THEN ps
  ELSE IF ~(TopLevel \subseteq DOMAIN ps.staged) THEN Fail(ps, "Error")
  ELSE LET db == [r \in TopLevel \cup Reachable(ps.staged) |-> LoadRoleinfo(ps.staged, r)]
       IN  [ps EXCEPT !.roledb = db, !.keydb = LoadKeydb(db), !.dirty = {}]

create_new_repository(ps) ==
  [ps EXCEPT !.roledb = [r \in TopLevel |-> NewRoleinfo(<<>>, 1, InitialVersion)],
             !.keydb = Empty, !.dirty = {}]

\* repository.targets(rolename): the delegated role of that name.
TargetsCall(ps, role) ==
  IF ps.err # "none" THEN ps
  ELSE IF role \in TopLevel \/ role \notin DOMAIN ps.roledb THEN Fail(ps, "Error")
  ELSE ps

\* An import that raised ends the action with that error.
Imported(ps, key) ==
  IF ps.err # "none" THEN ps
  ELSE IF key.err # "none" THEN Fail(ps, key.err)
  ELSE ps

\* Metadata.add_verification_key
add_key(ps, role, keyid) ==
  IF ps.err # "none" THEN ps
  ELSE IF role \notin DOMAIN ps.roledb THEN Fail(ps, "Error")
  ELSE [ps EXCEPT !.roledb[role].keyids = AppendNew(@, keyid),
                  !.keydb = IF keyid \in DOMAIN @ THEN @ ELSE Put(@, keyid, "public"),
                  !.dirty = @ \cup {role}]

\* Metadata.load_signing_key
load_signing_key(ps, role, keyid) ==
  IF ps.err # "none" THEN ps
  ELSE IF role \notin DOMAIN ps.roledb THEN Fail(ps, "Error")
  ELSE [ps EXCEPT !.roledb[role].signing_keyids = AppendNew(@, keyid),
                  !.keydb = Put(@, keyid, "private"),
                  !.dirty = @ \cup {role}]

\* Signatures that accumulate: a key that signs again adds a signature.
Accumulate(sigs, keyid) == Append(sigs, keyid)

\* One signature by key keyid: it takes the place of that key's earlier
\* signature, or is added when there is none.
AddSignature(sigs, keyid) == AppendNew(sigs, keyid)

\* One signature per loaded signing key.
RECURSIVE SignWith(_, _)
SignWith(sigs, keyids) ==
  IF keyids = <<>> THEN sigs
  ELSE SignWith(AddSignature(sigs, Head(keyids)), Tail(keyids))

sign(roleinfo) ==
  [roleinfo EXCEPT !.signatures = SignWith(@, roleinfo.signing_keyids)]

\* repository.write(rolename, increment_version_number)
write(ps, role, bump) ==
  IF ps.err # "none" THEN ps
  ELSE IF role \notin DOMAIN ps.roledb THEN Fail(ps, "Error")
  ELSE IF ps.io = 1 THEN [ps EXCEPT !.err = "crash", !.io = 0]
  ELSE LET ri == sign([ps.roledb[role] EXCEPT !.version = IF bump THEN @ + 1 ELSE @])
           db == [ps.roledb EXCEPT ![role] = ri]
       IN  [ps EXCEPT !.roledb = db,
                      !.staged = Put(@, role, MakeDoc(db, role)),
                      !.writes = Append(@, role),
                      !.io = IF @ > 1 THEN @ - 1 ELSE 0]

\* The dirty roles writeall writes before snapshot and timestamp.
ToWrite(ps, r) ==
  /\ r \in ps.dirty \cap DOMAIN ps.roledb
  /\ r \in {"root", "targets"} \cup Reachable(ps.roledb)

RECURSIVE WriteDirty(_, _)
WriteDirty(ps, order) ==
  IF order = <<>> THEN ps
  ELSE WriteDirty(IF ps.err = "none" /\ ToWrite(ps, Head(order))
                    THEN write(ps, Head(order), TRUE) ELSE ps,
                  Tail(order))

\* The files of roles that are no longer in the role database go.
DeleteObsolete(ps) ==
  IF ps.err # "none" THEN ps
  ELSE [ps EXCEPT !.staged = Del(@, DOMAIN @ \ DOMAIN ps.roledb)]

\* repository.writeall()
writeall(ps) ==
  write(write(DeleteObsolete(WriteDirty(ps, RoleOrder)), "snapshot", TRUE),
        "timestamp", TRUE)

-----------------------------------------------------------------------------
(* Delegation, revocation and verification. *)

\* An entry that never carries the terminating flag.
NeverTerminating(delegatee, keyids, paths, threshold, terminating) ==
  [name |-> delegatee, keyids |-> keyids, threshold |-> threshold,
   terminating |-> FALSE, paths |-> paths]

\* Targets.delegate(rolename, public_keys, paths, threshold, terminating)
\* on role parent: the entry is appended, the keys are registered, the
\* child is created when there is none, and both are marked dirty.
DelegationEntry(delegatee, keyids, paths, threshold, terminating) ==
  [name |-> delegatee, keyids |-> keyids, threshold |-> threshold,
   terminating |-> terminating, paths |-> paths]

RECURSIVE AddPublic(_, _)
AddPublic(kdb, keyids) ==
  IF keyids = <<>> THEN kdb
  ELSE AddPublic(IF Head(keyids) \in DOMAIN kdb THEN kdb
                 ELSE Put(kdb, Head(keyids), "public"), Tail(keyids))

targets_delegate(ps, parent, delegatee, keyids, paths, threshold, terminating) ==
  IF ps.err # "none" THEN ps
  ELSE IF parent \notin DOMAIN ps.roledb THEN Fail(ps, "Error")
  ELSE IF delegatee = "" \/ delegatee \in TopLevel \/ keyids = <<>> \/ threshold < 1
    THEN Fail(ps, "Error")
  ELSE LET entry == DelegationEntry(delegatee, keyids, paths, threshold, terminating)
           db1 == [ps.roledb EXCEPT ![parent].delegations = Append(@, entry)]
           fresh == delegatee \notin DOMAIN db1
           db2 == IF fresh
                    THEN Put(db1, delegatee, NewRoleinfo(keyids, threshold, NewRoleVersion))
                    ELSE db1
       IN  [ps EXCEPT !.roledb = db2,
                      !.keydb = AddPublic(@, keyids),
                      !.dirty = @ \cup {parent} \cup (IF fresh THEN {delegatee} ELSE {})]

\* The table up to its first entry for delegatee.
RECURSIVE UpToEntry(_, _)
UpToEntry(delegations, delegatee) ==
  IF delegations = <<>> THEN <<>>
  ELSE IF Head(delegations).name = delegatee THEN <<>>
  ELSE <<Head(delegations)>> \o UpToEntry(Tail(delegations), delegatee)

\* The table without its entries for delegatee.
RECURSIVE WithoutEntry(_, _)
WithoutEntry(delegations, delegatee) ==
  IF delegations = <<>> THEN <<>>
  ELSE IF Head(delegations).name = delegatee
    THEN WithoutEntry(Tail(delegations), delegatee)
  ELSE <<Head(delegations)>> \o WithoutEntry(Tail(delegations), delegatee)

\* A revoke that takes a delegatee without an entry for a revocation of
\* nothing.
RevokeWhatIsThere(ps, parent, delegatee) ==
  IF ps.err # "none" THEN ps
  ELSE IF parent \notin DOMAIN ps.roledb THEN Fail(ps, "Error")
  ELSE [ps EXCEPT !.roledb = Del([@ EXCEPT ![parent].delegations =
                                       WithoutEntry(@, delegatee)], {delegatee}),
                  !.dirty = (@ \cup {parent}) \ {delegatee}]

\* Targets.revoke(rolename) on role parent: the entry goes, the revoked
\* role is discarded, the parent is marked dirty.
targets_revoke(ps, parent, delegatee) ==
  IF ps.err # "none" THEN ps
  ELSE IF parent \notin DOMAIN ps.roledb THEN Fail(ps, "Error")
  ELSE IF delegatee \notin Delegatees(ps.roledb[parent].delegations)
    THEN Fail(ps, "Error")
  ELSE [ps EXCEPT !.roledb = Del([@ EXCEPT ![parent].delegations =
                                       WithoutEntry(@, delegatee)], {delegatee}),
                  !.dirty = (@ \cup {parent}) \ {delegatee}]

\* The key identifiers that signed, of the verification set or not.
RECURSIVE AnySigs(_, _)
AnySigs(sigs, keyids) ==
  IF sigs = <<>> THEN {}
  ELSE {Head(sigs)} \cup AnySigs(Tail(sigs), keyids)

\* The key identifiers, among keyids, that signed.
RECURSIVE GoodSigs(_, _)
GoodSigs(sigs, keyids) ==
  IF sigs = <<>> THEN {}
  ELSE (IF Head(sigs) \in Range(keyids) THEN {Head(sigs)} ELSE {})
         \cup GoodSigs(Tail(sigs), keyids)

\* Whether signatures sigs meet the threshold of a role verified with keyids.
ThresholdMet(sigs, keyids, threshold) ==
  Cardinality(GoodSigs(sigs, keyids)) >= threshold

\* isVerifiable(roleName) on the role database.
isVerifiable(db, r) ==
  ThresholdMet(db[r].signatures, db[r].keyids, db[r].threshold)

\* The same for a document of a metadata directory, verified with the keys
\* that directory assigns to the role.
DocVerifiable(tree, r) ==
  ThresholdMet(tree[r].signatures, Assignment(tree, r).keyids,
               Assignment(tree, r).threshold)

\* fnmatch.fnmatch(path, pattern) for patterns of characters, "*" and "?".
RECURSIVE fnmatch(_, _)
fnmatch(path, pattern) ==
  IF pattern = <<>> THEN path = <<>>
  ELSE IF Head(pattern) = "*"
    THEN \/ fnmatch(path, Tail(pattern))
         \/ path # <<>> /\ fnmatch(Tail(path), pattern)
  ELSE /\ path # <<>>
       /\ Head(pattern) = "?" \/ Head(pattern) = Head(path)
       /\ fnmatch(Tail(path), Tail(pattern))

-----------------------------------------------------------------------------
(* The actions of repo.py, up to their call of write_to_live_repo.  Each   *)
(* takes the parsed arguments a, the state ps of the process and the       *)
(* keystore ks, and gives the state the process is in when the action      *)
(* raises (ps.err # "none") or reaches write_to_live_repo.                 *)

\* Whether the password given for a key is the right one.
PwOk(a, option) == option \notin a.badpw

\* The import of the snapshot and timestamp keys, their loading, and
\* repository.writeall(): the end of every action that makes a release.
Release(ps, a, ks) ==
  LET snapshot_private ==
        import_privatekey_from_file(SNAPSHOT_KEY_NAME, PwOk(a, "snapshot_pw"), ks)
      timestamp_private ==
        import_privatekey_from_file(TIMESTAMP_KEY_NAME, PwOk(a, "timestamp_pw"), ks)
      p1 == Imported(Imported(ps, snapshot_private), timestamp_private)
      p2 == load_signing_key(p1, "snapshot", snapshot_private.keyid)
      p3 == load_signing_key(p2, "timestamp", timestamp_private.keyid)
  IN  writeall(p3)

\* The loop of lines 173-177: the keys of the files, or the first error.
RECURSIVE ImportPublicKeys(_, _)
ImportPublicKeys(pubkeys, ks) ==
  IF pubkeys = <<>> THEN [err |-> "none", keyids |-> <<>>]
  ELSE LET key == import_publickey_from_file(Head(pubkeys), ks)
           rest == ImportPublicKeys(Tail(pubkeys), ks)
       IN  IF key.err # "none" THEN [err |-> key.err, keyids |-> <<>>]
           ELSE IF rest.err # "none" THEN rest
           ELSE [err |-> "none", keyids |-> <<key.keyid>> \o rest.keyids]

\* delegate from line 173 on: the keys are imported, the repository is
\* loaded, the delegation is made, signed for and released.
Delegation(a, ps, ks) ==
  LET public_keys == ImportPublicKeys(a.pubkeys, ks)
      repository == load_repository(Imported(ps, public_keys))
      targets_private ==
        import_privatekey_from_file(TARGETS_KEY_NAME, PwOk(a, "targets_pw"), ks)
      role_privatekey == import_privatekey_from_file(a.sign, PwOk(a, "sign"), ks)
      delegated ==
        IF a.role = "targets"
          THEN load_signing_key(
                 Imported(targets_delegate(repository, "targets", a.delegatee,
                            public_keys.keyids, a.delegate, a.threshold, a.terminating),
                          targets_private),
                 "targets", targets_private.keyid)
          ELSE load_signing_key(
                 Imported(targets_delegate(TargetsCall(repository, a.role), a.role,
                            a.delegatee, public_keys.keyids, a.delegate, a.threshold,
                            a.terminating),
                          role_privatekey),
                 a.role, role_privatekey.keyid)
  IN  Release(delegated, a, ks)

\* A delegate that leaves the check of the delegatee's name to
\* repository_tool.
CheckedByRepositoryTool(a, ps, ks) ==
  IF a.delegatee = "" THEN Fail(ps, "Error")
  ELSE IF a.pubkeys = <<>> THEN Fail(ps, "Error")
  ELSE Delegation(a, ps, ks)

\* A delegate that checks its arguments after it loaded the repository.
LoadedBeforeChecks(a, ps, ks) ==
  IF a.delegatee \in {"root", "snapshot", "timestamp", "targets"} THEN Fail(ps, "Error")
  ELSE Delegation(a, ps, ks)

delegate(a, ps, ks) ==
  IF a.delegatee = "" THEN Fail(ps, "Error")
  ELSE IF a.delegatee \in {"root", "snapshot", "timestamp", "targets"} THEN Fail(ps, "Error")
  ELSE IF a.pubkeys = <<>> THEN Fail(ps, "Error")
  ELSE Delegation(a, ps, ks)

\* A revoke that signs and releases without the call of Targets.revoke.
ReleaseWithoutRevoking(a, ps, ks) ==
  LET repository == load_repository(ps)
      targets_private ==
        import_privatekey_from_file(TARGETS_KEY_NAME, PwOk(a, "targets_pw"), ks)
      role_privatekey == import_privatekey_from_file(a.sign, PwOk(a, "sign"), ks)
      signed ==
        IF a.role = "targets"
          THEN load_signing_key(Imported(repository, targets_private),
                                "targets", targets_private.keyid)
          ELSE load_signing_key(Imported(TargetsCall(repository, a.role), role_privatekey),
                                a.role, role_privatekey.keyid)
  IN  Release(signed, a, ks)

revoke(a, ps, ks) ==
  LET repository == load_repository(ps)
      targets_private ==
        import_privatekey_from_file(TARGETS_KEY_NAME, PwOk(a, "targets_pw"), ks)
      role_privatekey == import_privatekey_from_file(a.sign, PwOk(a, "sign"), ks)
      revoked ==
        IF a.role = "targets"
          THEN load_signing_key(
                 Imported(targets_revoke(repository, "targets", a.delegatee),
                          targets_private),
                 "targets", targets_private.keyid)
          ELSE load_signing_key(
                 Imported(targets_revoke(TargetsCall(repository, a.role), a.role,
                            a.delegatee),
                          role_privatekey),
                 a.role, role_privatekey.keyid)
  IN  Release(revoked, a, ks)

\* The loop of lines 389-405.
RECURSIVE TrustKeys(_, _, _, _)
TrustKeys(ps, pubkeys, role, ks) ==
  IF ps.err # "none" \/ pubkeys = <<>> THEN ps
  ELSE LET imported_pubkey == import_publickey_from_file(Head(pubkeys), ks)
           p1 == Imported(ps, imported_pubkey)
       IN  IF p1.err # "none" THEN p1
           ELSE IF role \in {"root", "targets", "snapshot", "timestamp"}
             THEN TrustKeys(add_key(p1, role, imported_pubkey.keyid),
                            Tail(pubkeys), role, ks)
           ELSE Fail(p1, "crash")

\* tuf.exception (for tuf.exceptions) raises AttributeError at lines 384 and 405.
add_verification_key(a, ps, ks) ==
  IF a.pubkeys = <<>> THEN Fail(ps, "crash")
  ELSE write(TrustKeys(load_repository(ps), a.pubkeys, a.role, ks), "root", FALSE)

\* The role sign_role adds when --role names no role of the database.
SignedRoleinfo(keyid) ==
  [keyids |-> <<keyid>>, signing_keyids |-> <<keyid>>, threshold |-> NoThreshold,
   paths |-> Empty, signatures |-> <<>>, version |-> NewRoleVersion,
   delegations |-> <<>>]

\* A sign_role that takes the branch of lines 439-456 also for a role of
\* the database: the role is set up anew with the signing key as its key.
SignAsNewRole(a, ps, ks) ==
  LET repository == load_repository(ps)
      role_privatekey ==
        IF a.sign # "."
          THEN import_privatekey_from_file(a.sign, PwOk(a, "sign"), ks)
          ELSE import_privatekey_from_file(TARGETS_KEY_NAME, PwOk(a, "targets_pw"), ks)
      p1 == Imported(repository, role_privatekey)
      keyid == role_privatekey.keyid
      signed ==
        IF p1.err # "none" THEN p1
        ELSE IF a.role = "targets" THEN load_signing_key(p1, "targets", keyid)
        ELSE IF a.role \in {"snapshot", "timestamp"} THEN p1
        ELSE write([p1 EXCEPT !.keydb = Put(Del(@, {keyid}), keyid, "private"),
                              !.roledb = Put(@, a.role, SignedRoleinfo(keyid))],
                   a.role, FALSE)
  IN  Release(signed, a, ks)

sign_role(a, ps, ks) ==
  LET repository == load_repository(ps)
      role_privatekey ==
        IF a.sign # "."
          THEN import_privatekey_from_file(a.sign, PwOk(a, "sign"), ks)
          ELSE import_privatekey_from_file(TARGETS_KEY_NAME, PwOk(a, "targets_pw"), ks)
      p1 == Imported(repository, role_privatekey)
      keyid == role_privatekey.keyid
      signed ==
        IF p1.err # "none" THEN p1
        ELSE IF a.role = "targets" THEN load_signing_key(p1, "targets", keyid)
        ELSE IF a.role \in {"snapshot", "timestamp"} THEN p1
        ELSE IF a.role \notin DOMAIN p1.roledb
          THEN write([p1 EXCEPT !.keydb = Put(Del(@, {keyid}), keyid, "private"),
                                !.roledb = Put(@, a.role, SignedRoleinfo(keyid))],
                     a.role, FALSE)
        ELSE write(load_signing_key(TargetsCall(p1, a.role), a.role, keyid),
                   a.role, FALSE)
  IN  Release(signed, a, ks)

\* custom = {} (lines 513-514): no caller passes custom metadata.
NoCustom == Empty

\* A path without a file is skipped (lines 516-517).
\* tuf.roledb.get_roleinfo raises for a role that is not in the database,
\* and roleinfo['paths'] raises KeyError for root, snapshot and timestamp,
\* whose roleinfo holds no path map.
add_target_to_repo(ps, target_path, role) ==
  IF ps.err # "none" THEN ps
  ELSE IF target_path \notin Paths THEN ps
  ELSE IF role \notin DOMAIN ps.roledb THEN Fail(ps, "Error")
  ELSE IF role \in {"root", "snapshot", "timestamp"} THEN Fail(ps, "crash")
  ELSE [ps EXCEPT !.roledb[role].paths = Put(@, target_path, NoCustom),
                  !.dirty = @ \cup {role}]

RECURSIVE AddEach(_, _, _)
AddEach(ps, target_paths, role) ==
  IF target_paths = <<>> THEN ps
  ELSE AddEach(add_target_to_repo(ps, Head(target_paths), role),
               Tail(target_paths), role)

add_targets(a, ps, ks) ==
  LET repository == AddEach(load_repository(ps), a.add, a.role)
      targets_private ==
        import_privatekey_from_file(TARGETS_KEY_NAME, PwOk(a, "pw"), ks)
      written ==
        IF a.role = "targets"
          THEN write(load_signing_key(Imported(repository, targets_private),
                                      "targets", targets_private.keyid),
                     "targets", TRUE)
        ELSE IF a.role \notin {"root", "snapshot", "timestamp"}
          THEN write(repository, a.role, TRUE)
        ELSE repository
  IN  Release(written, a, ks)

\* A removal that stops after the first glob pattern.
RemoveFirstPattern(paths, patterns) ==
  IF patterns = <<>> THEN paths
  ELSE Del(paths, {p \in DOMAIN paths : fnmatch(p, Head(patterns))})

\* The paths left once those matching one of the glob patterns are deleted.
RECURSIVE RemoveMatching(_, _)
RemoveMatching(paths, patterns) ==
  IF patterns = <<>> THEN paths
  ELSE RemoveMatching(Del(paths, {p \in DOMAIN paths : fnmatch(p, Head(patterns))}),
                      Tail(patterns))

\* A removal that raises when no path matched any pattern.
RaiseWhenNothingMatches(ps, a) ==
  IF ps.err # "none" THEN ps
  ELSE IF a.role \in {"root", "snapshot", "timestamp"} THEN Fail(ps, "Error")
  ELSE IF a.role \notin DOMAIN ps.roledb THEN Fail(ps, "Error")
  ELSE IF RemoveMatching(ps.roledb[a.role].paths, a.remove) = ps.roledb[a.role].paths
    THEN Fail(ps, "Error")
  ELSE [ps EXCEPT !.roledb[a.role].paths = RemoveMatching(@, a.remove),
                  !.dirty = @ \cup {a.role}]

remove_target_files_from_metadata(ps, a) ==
  IF ps.err # "none" THEN ps
  ELSE IF a.role \in {"root", "snapshot", "timestamp"} THEN Fail(ps, "Error")
  ELSE IF a.role \notin DOMAIN ps.roledb THEN Fail(ps, "Error")
  ELSE [ps EXCEPT !.roledb[a.role].paths = RemoveMatching(@, a.remove),
                  !.dirty = @ \cup {a.role}]

remove_targets(a, ps, ks) ==
  LET repository == remove_target_files_from_metadata(load_repository(ps), a)
      targets_private ==
        import_privatekey_from_file(TARGETS_KEY_NAME, PwOk(a, "targets_pw"), ks)
      snapshot_private ==
        import_privatekey_from_file(SNAPSHOT_KEY_NAME, PwOk(a, "snapshot_pw"), ks)
      timestamp_private ==
        import_privatekey_from_file(TIMESTAMP_KEY_NAME, PwOk(a, "timestamp_pw"), ks)
      p1 == Imported(Imported(Imported(repository, targets_private),
                              snapshot_private), timestamp_private)
      p2 == load_signing_key(p1, "targets", targets_private.keyid)
      p3 == load_signing_key(p2, "snapshot", snapshot_private.keyid)
      p4 == load_signing_key(p3, "timestamp", timestamp_private.keyid)
  IN  writeall(p4)

\* The key pairs are generated with the passwords they are then imported
\* with, so none of the imports of set_top_level_keys raises.
set_top_level_keys(ps) ==
  LET p1 == add_key(add_key(add_key(add_key(ps,
                "root", ROOT_KEY_NAME), "targets", TARGETS_KEY_NAME),
                "snapshot", SNAPSHOT_KEY_NAME), "timestamp", TIMESTAMP_KEY_NAME)
  IN  load_signing_key(load_signing_key(load_signing_key(load_signing_key(p1,
        "root", ROOT_KEY_NAME), "targets", TARGETS_KEY_NAME),
        "snapshot", SNAPSHOT_KEY_NAME), "timestamp", TIMESTAMP_KEY_NAME)

init_repo(a, ps, ks) ==
  LET repository == create_new_repository(ps)
  IN  IF ~a.bare
        THEN writeall(set_top_level_keys(repository))
        ELSE write(write(write(write(repository, "root", FALSE), "targets", FALSE),
                         "snapshot", FALSE), "timestamp", FALSE)

-----------------------------------------------------------------------------
(* The command lines. *)

\* parse_arguments with no option given.
NoArgs ==
  [init |-> FALSE, bare |-> FALSE, clean |-> "None", add |-> <<>>, remove |-> <<>>,
   trust |-> FALSE, sign |-> "None", key |-> "None", delegate |-> <<>>,
   revoke |-> FALSE, role |-> "targets", pubkeys |-> <<>>, delegatee |-> "",
   threshold |-> 1, terminating |-> FALSE, badpw |-> {}, io |-> 0]

\* Writes to the staged directory after which an injected I/O failure may come.
MaxIoFail == 2

\* Largest --threshold given.
MaxThreshold == 2

\* What goes wrong in a run: a wrong password for the key of one of the
\* options in pws, or the n-th write to the staged directory failing.
FailModes(pws, maxio) ==
  {[badpw |-> {}, io |-> n] : n \in 0..maxio}
    \cup {[badpw |-> {o}, io |-> 0] : o \in pws}

WithFail(a, f) == [a EXCEPT !.badpw = f.badpw, !.io = f.io]

Patterns == {<<"a">>, <<"*">>}

InitArgs == {[NoArgs EXCEPT !.init = TRUE, !.bare = b] : b \in BOOLEAN}

\* A directory that is not the working directory.
OtherDirectory == "/other"

\* --clean without a directory (const '.'), and with one.
CleanArgs == {[NoArgs EXCEPT !.clean = d] : d \in {".", OtherDirectory}}

AddArgs ==
  {WithFail([NoArgs EXCEPT !.add = <<p>>, !.role = r], f) :
     p \in Paths, r \in {"targets", "root", "dist"},
     f \in FailModes({"snapshot_pw"}, MaxIoFail)}
    \cup {[NoArgs EXCEPT !.add = <<MissingFile>>, !.role = "root"]}

RemoveArgs ==
  {WithFail([NoArgs EXCEPT !.remove = <<g>>, !.role = r], f) :
     g \in Patterns, r \in {"targets", "root", "dist"},
     f \in FailModes({"targets_pw"}, 0)}

TrustArgs ==
  {WithFail([NoArgs EXCEPT !.trust = TRUE, !.role = r, !.pubkeys = ks], f) :
     r \in {"root", "targets", "dist"}, ks \in {<<>>, <<"k1">>, <<"k2", "dsa">>},
     f \in FailModes({}, 1)}

SignArgs ==
  {WithFail([NoArgs EXCEPT !.sign = k, !.role = r], f) :
     k \in {".", "k1", "k2"}, r \in {"targets", "root", "snapshot", "dist", "sub"},
     f \in FailModes({"sign"}, 0)}
    \cup {[NoArgs EXCEPT !.sign = "dsa", !.role = "dist"]}

KeyArgs == {[NoArgs EXCEPT !.key = "ed25519"]}

\* --delegate and --revoke on a delegated --role take its key from --sign,
\* which also flags the sign action.
ParentArgs == {<<"targets", "None">>, <<"dist", "k1">>}

\* The values of --threshold and --terminating given together.
DelegationParams == {<<1, FALSE>>, <<1, TRUE>>, <<MaxThreshold, FALSE>>}

DelegateTo(delegatees, keys, fails) ==
  {WithFail([NoArgs EXCEPT !.delegate = <<"*">>, !.role = r[1], !.sign = r[2],
                           !.delegatee = d, !.pubkeys = ks, !.threshold = nt[1],
                           !.terminating = nt[2]], f) :
     r \in ParentArgs, d \in delegatees, ks \in keys, nt \in DelegationParams,
     f \in fails}

DelegateArgs ==
  DelegateTo({"", "root", "targets", "snapshot", "timestamp"}, {<<>>, <<"k1">>},
             FailModes({}, 0))
    \cup DelegateTo({"dist"}, {<<>>}, FailModes({}, 0))
    \cup DelegateTo({"dist", "sub"}, {<<"k1">>, <<"k2">>},
                    FailModes({"snapshot_pw"}, 0))

RevokeArgs ==
  {WithFail([NoArgs EXCEPT !.revoke = TRUE, !.role = r[1], !.sign = r[2],
                           !.delegatee = d], f) :
     r \in ParentArgs, d \in {"", "dist", "sub"}, f \in FailModes({"targets_pw"}, 0)}

\* --delegate and --revoke in one command line.
DelegateRevokeArgs ==
  {[a EXCEPT !.revoke = TRUE] :
     a \in DelegateTo({"dist", "sub"}, {<<"k1">>}, FailModes({}, 0))}

Invocations ==
  InitArgs \cup CleanArgs \cup AddArgs \cup RemoveArgs \cup TrustArgs \cup SignArgs
    \cup KeyArgs \cup DelegateArgs \cup RevokeArgs \cup DelegateRevokeArgs

-----------------------------------------------------------------------------
(* process_arguments: the flagged actions run in this order. *)

\* A process_arguments that delegates before it signs.
DelegateBeforeSign ==
  <<"init", "clean", "add", "remove", "trust", "delegate", "key", "sign", "revoke">>

ActionOrder ==
  <<"init", "clean", "add", "remove", "trust", "sign", "key", "delegate", "revoke">>

Flagged(a, name) ==
  CASE name = "init" -> a.init
    [] name = "clean" -> a.clean # "None"
    [] name = "add" -> a.add # <<>>
    [] name = "remove" -> a.remove # <<>>
    [] name = "trust" -> a.trust
    [] name = "sign" -> a.sign # "None"
    [] name = "key" -> a.key # "None"
    [] name = "delegate" -> a.delegate # <<>>
    [] name = "revoke" -> a.revoke

\* The index of the next action process_arguments runs (0: none is left).
NextAction ==
  LET left == {i \in DOMAIN ActionOrder : i > cur /\ Flagged(args, ActionOrder[i])}
  IN  IF left = {} THEN 0 ELSE Min(left)

Running(name) ==
  /\ pc = "dispatch"
  /\ NextAction # 0
  /\ ActionOrder[NextAction] = name

\* The action last started.
Last == IF cur = 0 THEN "none" ELSE ActionOrder[cur]

\* No document grows past the largest version of the model.
WithinBounds(st) == \A r \in DOMAIN st : st[r].version <= MaxVersion

Dirs == [staged |-> staged, live |-> live]

\* An action that promotes the staging directory before it reports its error.
PromoteThenReport(ps) ==
  /\ WithinBounds(ps.staged)
  /\ staged' = ps.staged
  /\ roledb' = ps.roledb
  /\ keydb' = ps.keydb
  /\ dirty' = ps.dirty
  /\ writes' = ps.writes
  /\ pre' = Dirs
  /\ cur' = NextAction
  /\ live' = ps.staged
  /\ IF ps.err = "none"
       THEN pc' = "dispatch" /\ outcome' = "ok" /\ exitcode' = exitcode
       ELSE /\ pc' = "exit"
            /\ outcome' = (IF ps.err = "Error" THEN "error" ELSE "crash")
            /\ exitcode' = 1
  /\ UNCHANGED <<args, start, ncmds, nkills>>

\* A __main__ that writes the message of a tuf.exceptions.Error and goes on
\* to sys.exit(0).
ReportWithoutExitCode(ps) ==
  /\ WithinBounds(ps.staged)
  /\ staged' = ps.staged
  /\ roledb' = ps.roledb
  /\ keydb' = ps.keydb
  /\ dirty' = ps.dirty
  /\ writes' = ps.writes
  /\ pre' = Dirs
  /\ cur' = NextAction
  /\ IF ps.err = "none"
       THEN pc' = "rmtree" /\ outcome' = "none" /\ exitcode' = exitcode
       ELSE /\ pc' = "exit"
            /\ outcome' = (IF ps.err = "Error" THEN "error" ELSE "crash")
            /\ exitcode' = (IF ps.err = "Error" THEN 0 ELSE 1)
  /\ UNCHANGED <<live, args, start, ncmds, nkills>>

\* The state an action leaves: at write_to_live_repo, or ended by an error
\* (sys.exit(1) at line 959, or a traceback).
Finish(ps) ==
  /\ WithinBounds(ps.staged)
  /\ staged' = ps.staged
  /\ roledb' = ps.roledb
  /\ keydb' = ps.keydb
  /\ dirty' = ps.dirty
  /\ writes' = ps.writes
  /\ pre' = Dirs
  /\ cur' = NextAction
  /\ IF ps.err = "none"
       THEN pc' = "rmtree" /\ outcome' = "none" /\ exitcode' = exitcode
       ELSE /\ pc' = "exit"
            /\ outcome' = (IF ps.err = "Error" THEN "error" ELSE "crash")
            /\ exitcode' = 1
  /\ UNCHANGED <<live, args, start, ncmds, nkills>>

\* A new process: repo.py is started with some command line.
Invoke ==
  /\ pc = "idle"
  /\ ncmds < MaxCmds
  /\ \E a \in Invocations : args' = a
  /\ pc' = "dispatch"
  /\ start' = Dirs
  /\ pre' = Dirs
  /\ ncmds' = ncmds + 1
  /\ UNCHANGED <<staged, live, keystore, client, roledb, keydb, dirty, cur,
                 outcome, exitcode, nkills, writes>>

InitRepo ==
  /\ Running("init")
  /\ Finish(init_repo(args, Entering(staged, args.io), keystore))
  /\ keystore' = IF args.bare THEN keystore ELSE keystore \cup TopKeyFiles
  /\ UNCHANGED client

\* clean_repo removes the three directories under parsed_arguments.path,
\* the working directory by default, whatever directory --clean names.
CleanRepo ==
  /\ Running("clean")
  /\ staged' = Empty
  /\ live' = Empty
  /\ keystore' = {}
  /\ client' = FALSE
  /\ pre' = Dirs
  /\ cur' = NextAction
  /\ outcome' = "ok"
  /\ writes' = <<>>
  /\ UNCHANGED <<roledb, keydb, dirty, args, pc, exitcode, start, ncmds, nkills>>

AddTargets ==
  /\ Running("add")
  /\ Finish(add_targets(args, Entering(staged, args.io), keystore))
  /\ UNCHANGED <<keystore, client>>

RemoveTargets ==
  /\ Running("remove")
  /\ Finish(remove_targets(args, Entering(staged, args.io), keystore))
  /\ UNCHANGED <<keystore, client>>

AddVerificationKey ==
  /\ Running("trust")
  /\ Finish(add_verification_key(args, Entering(staged, args.io), keystore))
  /\ UNCHANGED <<keystore, client>>

SignRole ==
  /\ Running("sign")
  /\ Finish(sign_role(args, Entering(staged, args.io), keystore))
  /\ UNCHANGED <<keystore, client>>

\* gen_key writes a new key pair to the keystore.
GenKey ==
  /\ Running("key")
  /\ keystore' = keystore \cup {"generated"}
  /\ pre' = Dirs
  /\ cur' = NextAction
  /\ outcome' = "ok"
  /\ writes' = <<>>
  /\ UNCHANGED <<staged, live, client, roledb, keydb, dirty, args, pc, exitcode,
                 start, ncmds, nkills>>

Delegate ==
  /\ Running("delegate")
  /\ Finish(delegate(args, Entering(staged, args.io), keystore))
  /\ UNCHANGED <<keystore, client>>

Revoke ==
  /\ Running("revoke")
  /\ Finish(revoke(args, Entering(staged, args.io), keystore))
  /\ UNCHANGED <<keystore, client>>

\* write_to_live_repo, line 502: shutil.rmtree(live_meta_directory).
Rmtree ==
  /\ pc = "rmtree"
  /\ live' = Empty
  /\ pc' = "copytree"
  /\ UNCHANGED <<staged, keystore, client, roledb, keydb, dirty, args, cur,
                 outcome, exitcode, pre, start, ncmds, nkills, writes>>

\* The first n staged files in the order shutil.copytree copies them.
RECURSIVE FirstFiles(_, _, _)
FirstFiles(st, order, n) ==
  IF n = 0 \/ order = <<>> THEN {}
  ELSE IF Head(order) \in DOMAIN st
    THEN {Head(order)} \cup FirstFiles(st, Tail(order), n - 1)
  ELSE FirstFiles(st, Tail(order), n)

\* write_to_live_repo, line 503: shutil.copytree(staged, live); the action
\* is then over (init_repo makes the client directory after it).
Copytree ==
  /\ pc = "copytree"
  /\ live' = staged
  /\ pc' = "dispatch"
  /\ outcome' = "ok"
  /\ client' = (client \/ Last = "init")
  /\ UNCHANGED <<staged, keystore, roledb, keydb, dirty, args, cur, exitcode,
                 pre, start, ncmds, nkills, writes>>

\* The memory of a process that is gone.
Gone ==
  /\ roledb' = Empty
  /\ keydb' = Empty
  /\ dirty' = {}
  /\ args' = NoArgs
  /\ cur' = 0
  /\ outcome' = "none"
  /\ exitcode' = -1
  /\ pre' = [staged |-> Empty, live |-> Empty]
  /\ start' = [staged |-> Empty, live |-> Empty]
  /\ writes' = <<>>

\* The process is killed in write_to_live_repo: before rmtree, or in
\* copytree with some but not all of the staged files copied.
Kill ==
  /\ pc \in {"rmtree", "copytree"}
  /\ nkills < MaxKills
  /\ IF pc = "rmtree" THEN live' = live
     ELSE \E n \in 0..MaxCopied :
            /\ n < Cardinality(DOMAIN staged)
            /\ live' = [r \in FirstFiles(staged, RoleOrder, n) |-> staged[r]]
  /\ pc' = "killed"
  /\ outcome' = "killed"
  /\ nkills' = nkills + 1
  /\ UNCHANGED <<staged, keystore, client, roledb, keydb, dirty, args, cur,
                 exitcode, pre, start, ncmds, writes>>

\* process_arguments returns: sys.exit(0).
Exit ==
  /\ pc = "dispatch"
  /\ NextAction = 0
  /\ pc' = "exit"
  /\ exitcode' = 0
  /\ UNCHANGED <<staged, live, keystore, client, roledb, keydb, dirty, args, cur,
                 outcome, pre, start, ncmds, nkills, writes>>

\* The process has exited or was killed.
Terminate ==
  /\ pc \in {"exit", "killed"}
  /\ pc' = "idle"
  /\ Gone
  /\ UNCHANGED <<staged, live, keystore, client, ncmds, nkills>>

Init ==
  /\ staged = Empty
  /\ live = Empty
  /\ keystore = {}
  /\ client = FALSE
  /\ roledb = Empty
  /\ keydb = Empty
  /\ dirty = {}
  /\ args = NoArgs
  /\ pc = "idle"
  /\ cur = 0
  /\ outcome = "none"
  /\ exitcode = -1
  /\ pre = [staged |-> Empty, live |-> Empty]
  /\ start = [staged |-> Empty, live |-> Empty]
  /\ ncmds = 0
  /\ nkills = 0
  /\ writes = <<>>

Next ==
  \/ Invoke
  \/ InitRepo
  \/ CleanRepo
  \/ AddTargets
  \/ RemoveTargets
  \/ AddVerificationKey
  \/ SignRole
  \/ GenKey
  \/ Delegate
  \/ Revoke
  \/ Rmtree
  \/ Copytree
  \/ Kill
  \/ Exit
  \/ Terminate

Spec == Init /\ [][Next]_vars

-----------------------------------------------------------------------------
(* Properties of write_to_live_repo. *)

\* C1: publish exposes no partial state: at every step of a process, also
\* when it is killed inside write_to_live_repo, the live directory holds the
\* complete tree it held before the action or the complete staged tree.
PublishIsAtomic == pc # "idle" => live \in {pre.live, staged}

\* C2: when an action ends with an error before write_to_live_repo, the live
\* directory is what it was before the action started.
FailureLeavesLive == outcome \in {"error", "crash"} => live = pre.live

\* An action failed after it wrote to the staging directory, next to a live
\* tree that is not empty.
FailedAfterStagingWrite ==
  /\ outcome \in {"error", "crash"}
  /\ Last \in {"add", "remove", "trust", "sign", "delegate", "revoke"}
  /\ staged # pre.staged
  /\ live # Empty
  /\ live # staged

-----------------------------------------------------------------------------
(* Properties of the released tree. *)

\* The snapshot document of a tree references the version of every other
\* role document in it, and the timestamp document the version of snapshot.
Consistent(tree) ==
  /\ \A r \in DOMAIN tree \ {"snapshot", "timestamp"} :
       /\ "snapshot" \in DOMAIN tree
       /\ r \in DOMAIN tree["snapshot"].meta
       /\ tree["snapshot"].meta[r] = tree[r].version
  /\ "snapshot" \in DOMAIN tree =>
       /\ "timestamp" \in DOMAIN tree
       /\ "snapshot" \in DOMAIN tree["timestamp"].meta
       /\ tree["timestamp"].meta["snapshot"] = tree["snapshot"].version

Mutating == {"init", "add", "remove", "trust", "sign", "delegate", "revoke"}

\* The action last started has released the staging directory.
Succeeded == outcome = "ok" /\ Last \in Mutating

\* C3: after every successful mutating command the live snapshot references
\* the live version of every other role document and the live timestamp
\* references the live snapshot version.
LiveIsConsistent == Succeeded => Consistent(live)

\* C4: after every successful command every role document of the live
\* directory carries signatures of at least threshold keys of the role's
\* verification-key set.
LiveIsVerifiable == Succeeded => \A r \in DOMAIN live : DocVerifiable(live, r)

-----------------------------------------------------------------------------
(* Properties of delegate. *)

\* The action leaves the role and key databases, the keystore, the staging
\* directory and the live directory as they were.
NothingChanges ==
  /\ roledb' = roledb
  /\ keydb' = keydb
  /\ dirty' = dirty
  /\ keystore' = keystore
  /\ staged' = staged
  /\ live' = live

Rejected == outcome' = "error" /\ exitcode' = 1

\* C5: delegate to root, targets, snapshot or timestamp fails with an error,
\* for every parent, keys, threshold and terminating flag, and changes
\* nothing.
TopLevelDelegateeRejected ==
  [][(Delegate /\ args.delegatee \in TopLevel) => (Rejected /\ NothingChanges)]_vars

\* A delegation to a top-level role was asked of a repository and refused.
TopLevelDelegateeTried ==
  /\ Last = "delegate"
  /\ args.delegatee \in TopLevel
  /\ args.pubkeys # <<>>
  /\ outcome = "error"
  /\ TopLevel \subseteq DOMAIN staged

\* C6: delegate with an empty delegatee name or without public keys fails
\* with an error before the repository is loaded, and changes nothing.
MissingArgumentRejected ==
  [][(Delegate /\ (args.delegatee = "" \/ args.pubkeys = <<>>))
       => (Rejected /\ NothingChanges)]_vars

\* A delegation without public keys was asked of a repository and refused
\* with nothing loaded.
MissingArgumentTried ==
  /\ Last = "delegate"
  /\ args.delegatee \in DelegNames
  /\ args.pubkeys = <<>>
  /\ outcome = "error"
  /\ TopLevel \subseteq DOMAIN staged
  /\ roledb = Empty

-----------------------------------------------------------------------------
(* Properties of signing. *)

NoDuplicates(s) == Cardinality(Range(s)) = Len(s)

\* C8: signing is idempotent per signer: the signature list of every role,
\* in the role database and in the documents of both directories, holds at
\* most one signature per key identifier.
OneSignaturePerKey ==
  /\ \A r \in DOMAIN roledb : NoDuplicates(roledb[r].signatures)
  /\ \A r \in DOMAIN staged : NoDuplicates(staged[r].signatures)
  /\ \A r \in DOMAIN live : NoDuplicates(live[r].signatures)

\* add_targets has written targets twice in one process (write, then
\* writeall), signed both times by the one targets key.
SignedTwiceByOneKey ==
  /\ Last = "add"
  /\ pc = "rmtree"
  /\ args.role = "targets"
  /\ "targets" \in DOMAIN pre.staged
  /\ staged["targets"].version = pre.staged["targets"].version + 2
  /\ staged["targets"].signatures = <<TARGETS_KEY_NAME>>

\* sign_role has reached write_to_live_repo.
JustSigned == Last = "sign" /\ pc = "rmtree"

\* The identifier of the key sign_role signs with.
SigningKey == IF args.sign = "." THEN TARGETS_KEY_NAME ELSE args.sign

\* The roles of the repository before the action.
RolesBefore == (TopLevel \cap DOMAIN pre.staged) \cup Reachable(pre.staged)

-----------------------------------------------------------------------------
(* Properties of delegate followed by revoke. *)

\* One command line asked for --delegate and --revoke of the same delegatee:
\* the delegation was made and released, and revoke has now reached
\* write_to_live_repo.
DelegatedThenRevoked ==
  /\ Last = "revoke"
  /\ pc = "rmtree"
  /\ args.delegate # <<>>
  /\ args.role \in DOMAIN start.staged

ParentRestored ==
  /\ args.role \in DOMAIN staged
  /\ staged[args.role].delegations = start.staged[args.role].delegations
  /\ roledb[args.role].delegations = start.staged[args.role].delegations

-----------------------------------------------------------------------------
(* isVerifiable on its own: a delegated role of the role database gets     *)
(* verification keys and signatures of any signer, in any order and any    *)
(* number of times.                                                        *)

Signers == {"k1", "k2", "pem"}

InitVerify ==
  /\ staged = Empty
  /\ live = Empty
  /\ keystore = {}
  /\ client = FALSE
  /\ \E n \in 1..MaxThreshold :
       roledb = [r \in {"dist"} |-> NewRoleinfo(<<>>, n, NewRoleVersion)]
  /\ keydb = Empty
  /\ dirty = {}
  /\ args = NoArgs
  /\ pc = "verify"
  /\ cur = 0
  /\ outcome = "none"
  /\ exitcode = -1
  /\ pre = [staged |-> Empty, live |-> Empty]
  /\ start = [staged |-> Empty, live |-> Empty]
  /\ ncmds = 0
  /\ nkills = 0
  /\ writes = <<>>

\* A signature by any signer is attached to the role.
AttachSignature ==
  /\ pc = "verify"
  /\ Len(roledb["dist"].signatures) < MaxSigs
  /\ \E k \in Signers :
       roledb' = [roledb EXCEPT !["dist"].signatures = Append(@, k)]
  /\ UNCHANGED <<staged, live, keystore, client, keydb, dirty, args, pc, cur,
                 outcome, exitcode, pre, start, ncmds, nkills, writes>>

\* A key is added to the verification set of the role.
AttachVerificationKey ==
  /\ pc = "verify"
  /\ Len(roledb["dist"].keyids) < MaxThreshold
  /\ \E k \in Signers :
       roledb' = [roledb EXCEPT !["dist"].keyids = AppendNew(@, k)]
  /\ UNCHANGED <<staged, live, keystore, client, keydb, dirty, args, pc, cur,
                 outcome, exitcode, pre, start, ncmds, nkills, writes>>

NextVerify ==
  \/ AttachSignature
  \/ AttachVerificationKey

VerifySpec == InitVerify /\ [][NextVerify]_vars

-----------------------------------------------------------------------------
(* remove_target_files_from_metadata on its own: the role database holds   *)
(* targets and one delegated role with any path map, and --remove gives    *)
(* one or two glob patterns.                                               *)

AllPaths == {<<"a">>, <<"b">>, <<"a", "b">>}

Customs == {NoCustom, [note |-> "x"]}

PathMaps == UNION {[some -> Customs] : some \in SUBSET AllPaths}

Globs == {<<"a">>, <<"*">>, <<"?">>, <<"a", "*">>, <<"c">>}

PatternLists == {<<g>> : g \in Globs} \cup (Globs \X Globs)

InitRemove ==
  /\ staged = Empty
  /\ live = Empty
  /\ keystore = {}
  /\ client = FALSE
  /\ \E pm \in PathMaps :
       roledb = [r \in {"targets", "dist"} |->
                   [NewRoleinfo(<<>>, 1, NewRoleVersion) EXCEPT !.paths = pm]]
  /\ keydb = Empty
  /\ dirty = {}
  /\ \E r \in {"targets", "dist"}, gs \in PatternLists :
       args = [NoArgs EXCEPT !.role = r, !.remove = gs]
  /\ pc = "remove"
  /\ cur = 0
  /\ outcome = "none"
  /\ exitcode = -1
  /\ pre = [staged |-> Empty, live |-> Empty]
  /\ start = [staged |-> Empty, live |-> Empty]
  /\ ncmds = 0
  /\ nkills = 0
  /\ writes = <<>>

\* remove_target_files_from_metadata runs on the loaded repository.
RemoveFromMetadata ==
  /\ pc = "remove"
  /\ LET ps == remove_target_files_from_metadata(Entering(staged, 0), args)
     IN  /\ roledb' = ps.roledb
         /\ dirty' = ps.dirty
         /\ outcome' = IF ps.err = "none" THEN "ok" ELSE "error"
  /\ pc' = "removed"
  /\ UNCHANGED <<staged, live, keystore, client, keydb, args, cur, exitcode, pre,
                 start, ncmds, nkills, writes>>

RemoveSpec == InitRemove /\ [][RemoveFromMetadata]_vars

\* Whether a path matches at least one pattern of the list.
MatchesSome(path, patterns) == \E i \in DOMAIN patterns : fnmatch(path, patterns[i])

\* The path map without the entries matching a pattern, the others kept
\* with their custom metadata.
Unmatched(paths, patterns) ==
  [p \in {q \in DOMAIN paths : ~MatchesSome(q, patterns)} |-> paths[p]]

\* C11: the removal deletes from the role's path map exactly the entries
\* whose path matches at least one of the patterns; the other entries stay
\* with their custom metadata, no entry is added, and the path map of the
\* other role is untouched.
RemovesExactlyMatching ==
  [][RemoveFromMetadata =>
       /\ roledb'[args.role].paths = Unmatched(roledb[args.role].paths, args.remove)
       /\ \A r \in DOMAIN roledb \ {args.role} : roledb'[r] = roledb[r]]_vars

\* Two patterns were given; the second alone matched a path, and a path
\* with custom metadata matched neither.
SecondPatternRemoved ==
  /\ pc = "removed"
  /\ args.remove = <<<<"c">>, <<"a">>>>
  /\ DOMAIN roledb[args.role].paths = {<<"b">>, <<"a", "b">>}
  /\ roledb[args.role].paths[<<"b">>] = [note |-> "x"]

\* No claimed path of the role matches a pattern of --remove.
NothingMatches ==
  \A q \in DOMAIN roledb[args.role].paths : ~MatchesSome(q, args.remove)

\* C12 as stated: a removal whose patterns match none of the role's paths
\* raises no error, leaves the path map unchanged and does not mark the
\* role dirty.
UnmatchedRemoveIsNoOp ==
  [][(RemoveFromMetadata /\ NothingMatches) =>
       (outcome' = "ok" /\ roledb' = roledb /\ dirty' = dirty)]_vars

\* C12, amended: such a removal raises no error and leaves the path map
\* unchanged, and the role is marked dirty as by every removal.
UnmatchedRemoveKeepsPaths ==
  [][(RemoveFromMetadata /\ NothingMatches) =>
       (outcome' = "ok" /\ roledb' = roledb /\ dirty' = dirty \cup {args.role})]_vars

\* A pattern that matches no path was removed from a path map that is not
\* empty.
UnmatchedRemoveDone ==
  /\ pc = "removed"
  /\ outcome = "ok"
  /\ args.remove = <<<<"c">>>>
  /\ DOMAIN roledb[args.role].paths = AllPaths
  /\ args.role \in dirty

-----------------------------------------------------------------------------
(* Target claims of root, snapshot and timestamp. *)

\* C13: add and remove with --role root, snapshot or timestamp fail with an
\* error, and leave the role not dirty and the staging directory and the
\* live directory as they were.
TopLevelClaimRejected ==
  [][((AddTargets \/ RemoveTargets) /\ args.role \in {"root", "snapshot", "timestamp"})
       => /\ Rejected
          /\ args.role \notin dirty'
          /\ staged' = staged
          /\ live' = live]_vars

-----------------------------------------------------------------------------
(* Properties of revoke. *)

\* The role database load_repository builds from the staging directory.
Loaded == load_repository(Entering(staged, 0)).roledb

\* The parent named by --role is a targets role of the repository.
ParentLoaded ==
  /\ TopLevel \subseteq DOMAIN staged
  /\ args.role \in DOMAIN Loaded \ {"root", "snapshot", "timestamp"}

\* The parent's delegation table has no entry for --delegatee.
NoSuchDelegation ==
  /\ ParentLoaded
  /\ args.delegatee \notin Delegatees(Loaded[args.role].delegations)

\* C14: revoke of a delegatee the parent's table has no entry for fails
\* with an error; the role graph is the one of the staging directory, no
\* role is dirty, the staging and live directories are as they were, and
\* the process ends without a release.
MissingDelegationRejected ==
  [][(Revoke /\ NoSuchDelegation)
       => /\ Rejected
          /\ roledb' = Loaded
          /\ dirty' = {}
          /\ staged' = staged
          /\ live' = live
          /\ pc' = "exit"]_vars

\* A revocation of sub was refused by a parent that delegates to dist only.
MissingDelegationTried ==
  /\ Last = "revoke"
  /\ outcome = "error"
  /\ args.delegatee = "sub"
  /\ args.badpw = {}
  /\ ParentLoaded
  /\ Delegatees(Loaded[args.role].delegations) = {"dist"}
  /\ staged = pre.staged

-----------------------------------------------------------------------------
(* revoke on the repositories that a series of delegations builds. *)

\* Delegations in the series.
MaxDelegations == 4

\* A process that starts over the staged directory st.
Starting(st) ==
  [roledb |-> Empty, keydb |-> Empty, dirty |-> {}, staged |-> st,
   err |-> "none", io |-> 0, writes |-> <<>>]

\* repo.py --init.
Initialized == init_repo([NoArgs EXCEPT !.init = TRUE], Starting(Empty), {}).staged

\* repo.py --delegate "*" --delegatee d --pubkeys k [--role dist --sign k1].
Steps ==
  {[NoArgs EXCEPT !.delegate = <<"*">>, !.role = r[1], !.sign = r[2],
                  !.delegatee = d, !.pubkeys = <<k>>] :
     r \in ParentArgs, d \in {"dist", "sub"}, k \in {"k1", "k2"}}

\* The staged directories that at most n such commands leave, each command
\* its own process.
RECURSIVE Delegated(_)
Delegated(n) ==
  IF n = 0 THEN {Initialized}
  ELSE LET before == Delegated(n - 1)
       IN  before \cup {delegate(s, Starting(st), TopKeyFiles).staged :
                          st \in before, s \in Steps}

Repositories == Delegated(MaxDelegations)

InitRevoke ==
  /\ staged \in Repositories
  /\ live = staged
  /\ keystore = TopKeyFiles
  /\ client = TRUE
  /\ roledb = Empty
  /\ keydb = Empty
  /\ dirty = {}
  /\ \E r \in ParentArgs, d \in {"dist", "sub"} :
       args = [NoArgs EXCEPT !.revoke = TRUE, !.role = r[1], !.sign = r[2],
                             !.delegatee = d]
  /\ pc = "revoke"
  /\ cur = 0
  /\ outcome = "none"
  /\ exitcode = -1
  /\ pre = [staged |-> staged, live |-> staged]
  /\ start = [staged |-> staged, live |-> staged]
  /\ ncmds = 0
  /\ nkills = 0
  /\ writes = <<>>

\* revoke up to write_to_live_repo.
RevokeBuilt ==
  /\ pc = "revoke"
  /\ LET ps == revoke(args, Entering(staged, 0), keystore)
     IN  /\ staged' = ps.staged
         /\ roledb' = ps.roledb
         /\ keydb' = ps.keydb
         /\ dirty' = ps.dirty
         /\ outcome' = (CASE ps.err = "none" -> "ok"
                          [] ps.err = "Error" -> "error"
                          [] OTHER -> "crash")
  /\ pc' = "revoked"
  /\ UNCHANGED <<live, keystore, client, args, cur, exitcode, pre, start, ncmds, nkills, writes>>

RevokeSpec == InitRevoke /\ [][RevokeBuilt]_vars

\* The entries of a delegation table that are not for the delegatee.
OtherEntries(delegations) ==
  LET others == {i \in DOMAIN delegations : delegations[i].name # args.delegatee}
  IN  [k \in 1..Cardinality(others) |->
         delegations[CHOOSE i \in others : Cardinality({j \in others : j <= i}) = k]]

\* The roles the revoked role delegates to.
Grandchildren ==
  IF args.delegatee \in DOMAIN Loaded
    THEN Delegatees(Loaded[args.delegatee].delegations) \ {args.delegatee, args.role}
    ELSE {}

\* C15: revoke of a delegatee other than the parent itself takes the entries
\* for the delegatee out of the parent's table and leaves the other entries
\* with their content in their order; the roles the revoked role delegates
\* to stay in the role graph and in the staging directory as they were.
OnlyDelegateeRevoked ==
  [][(RevokeBuilt /\ ParentLoaded /\ ~NoSuchDelegation /\ args.delegatee # args.role)
       => /\ roledb'[args.role].delegations = OtherEntries(Loaded[args.role].delegations)
          /\ \A g \in Grandchildren :
               /\ g \in DOMAIN roledb' /\ roledb'[g] = Loaded[g]
               /\ g \in DOMAIN staged' /\ staged'[g] = staged[g]]_vars

\* dist, which delegates to sub, was revoked from a table that holds an
\* entry before it and an entry after it.
GrandchildKept ==
  /\ pc = "revoked"
  /\ outcome = "ok"
  /\ args.role = "targets"
  /\ args.delegatee = "dist"
  /\ Len(roledb["targets"].delegations) >= 2
  /\ Len(pre.staged["targets"].delegations) = Len(roledb["targets"].delegations) + 1
  /\ pre.staged["targets"].delegations[1].name = "sub"
  /\ pre.staged["targets"].delegations[2].name = "dist"
  /\ "sub" \in Delegatees(pre.staged["dist"].delegations)
  /\ "dist" \notin DOMAIN roledb
  /\ "sub" \in DOMAIN roledb

-----------------------------------------------------------------------------
(* Thresholds. *)

\* C16: every role of the role database and every entry of every delegation
\* table has a threshold of at least 1.
ThresholdsPositive ==
  \A r \in DOMAIN roledb :
    /\ roledb[r].threshold >= 1
    /\ \A i \in DOMAIN roledb[r].delegations : roledb[r].delegations[i].threshold >= 1

-----------------------------------------------------------------------------
(* Operations that end with an error. *)

CoreOperation ==
  Delegate \/ Revoke \/ AddVerificationKey \/ AddTargets \/ RemoveTargets \/ SignRole

\* C17: when delegate, revoke, trust, add, remove or sign ends with a
\* reported error, the role and key databases of the process are the ones it
\* held before the operation, or the ones load_repository read from the
\* staging directory.
AllOrNothing ==
  [][(CoreOperation /\ outcome' = "error")
       => \/ roledb' = roledb /\ keydb' = keydb
          \/ /\ TopLevel \subseteq DOMAIN staged
             /\ roledb' = Loaded
             /\ keydb' = LoadKeydb(Loaded)]_vars

-----------------------------------------------------------------------------
(* import_privatekey_from_file, attempt by attempt. *)

\* The key files a caller may name, and "None" for no file.
KeyPaths == TopKeyFiles \cup UserKeyFiles \cup {"None"}

\* In this specification pc is the line import_privatekey_from_file is at,
\* outcome is the key object or the exception of the last step, and cur
\* counts the parse attempts made.
InitImport ==
  /\ staged = Empty
  /\ live = Empty
  /\ keystore \in {{}, TopKeyFiles}
  /\ client = FALSE
  /\ roledb = Empty
  /\ keydb = Empty
  /\ dirty = {}
  /\ \E path \in KeyPaths, bad \in {{}, {"sign"}} :
       args = [NoArgs EXCEPT !.sign = path, !.badpw = bad]
  /\ pc = "open"
  /\ cur = 0
  /\ outcome = NoKey
  /\ exitcode = -1
  /\ pre = [staged |-> Empty, live |-> Empty]
  /\ start = [staged |-> Empty, live |-> Empty]
  /\ ncmds = 0
  /\ nkills = 0
  /\ writes = <<>>

\* What an import step leaves alone.
ImportFrame ==
  UNCHANGED <<staged, live, keystore, client, roledb, keydb, dirty, args, exitcode,
              pre, start, ncmds, nkills, writes>>

\* Lines 329-330: open(keypath) raises for a missing file.
OpenKeyFile ==
  /\ pc = "open"
  /\ IF FileExists(args.sign, keystore)
       THEN pc' = "decrypt" /\ outcome' = outcome
       ELSE pc' = "traceback" /\ outcome' = Raise("crash")
  /\ cur' = cur
  /\ ImportFrame

\* Lines 335-339: the first attempt.
FirstAttempt ==
  /\ pc = "decrypt"
  /\ outcome' = Decrypted(KeyFile(args.sign), PwOk(args, "sign"))
  /\ pc' = IF outcome'.err = "none" THEN "keytype"
           ELSE IF Caught(outcome') THEN "pem"
           ELSE "traceback"
  /\ cur' = cur + 1
  /\ ImportFrame

\* Lines 340-351: the second attempt, in the except clause of the first.
SecondAttempt ==
  /\ pc = "pem"
  /\ LET second == import_rsakey_from_private_pem(KeyFile(args.sign), PwOk(args, "sign"))
     IN  IF second.err = "none" THEN pc' = "keytype" /\ outcome' = second
         ELSE IF Caught(second) THEN pc' = "import_error" /\ outcome' = Raise("Error")
         ELSE pc' = "traceback" /\ outcome' = second
  /\ cur' = cur + 1
  /\ ImportFrame

\* Lines 353-363: the key type check.
KeyTypeCheck ==
  /\ pc = "keytype"
  /\ outcome' = CheckKeyType(outcome)
  /\ pc' = IF outcome'.err = "none" THEN "return" ELSE "keytype_error"
  /\ cur' = cur
  /\ ImportFrame

NextImport == OpenKeyFile \/ FirstAttempt \/ SecondAttempt \/ KeyTypeCheck

ImportSpec == InitImport /\ [][NextImport]_vars

\* The steps end where import_privatekey_from_file, taken as a whole, ends.
StepsAgree ==
  pc \in {"traceback", "import_error", "keytype_error", "return"}
    => outcome = import_privatekey_from_file(args.sign, PwOk(args, "sign"), keystore)

\* The first attempt fails with a decryption failure.
DecryptFails == Decrypted(KeyFile(args.sign), PwOk(args, "sign")).err = "CryptoError"

\* The second attempt, if made, fails with a decryption failure.
PemFails ==
  import_rsakey_from_private_pem(KeyFile(args.sign), PwOk(args, "sign")).err = "CryptoError"

\* C18: the key of a first attempt that succeeds is the result and no second
\* attempt is made; the second attempt is made only after the first failed
\* with a decryption failure, and its key is then the result; the import
\* error is raised if and only if both attempts fail.
ImportIsOrdered ==
  [][/\ (FirstAttempt /\ ~DecryptFails /\ KeyFile(args.sign).fmt = "enc")
          => /\ pc' = "keytype"
             /\ outcome'.keyid = KeyFile(args.sign).keyid
     /\ SecondAttempt => (outcome.err = "CryptoError" /\ cur = 1)
     /\ (SecondAttempt /\ ~PemFails)
          => /\ pc' = "keytype"
             /\ outcome'.keyid = KeyFile(args.sign).keyid
     /\ pc' = "import_error" <=> (SecondAttempt /\ DecryptFails /\ PemFails)
     /\ (FirstAttempt /\ DecryptFails) => pc' = "pem"]_vars

\* The second attempt read the key of the private PEM file.
PemReadSecond ==
  /\ pc = "keytype"
  /\ cur = 2
  /\ outcome.err = "none"
  /\ outcome.keytype = "rsa"

-----------------------------------------------------------------------------
(* Key types. *)

\* The keys of a role: the keys that verify it and the keys loaded to sign
\* for it, and the keys its delegation table gives to its delegatees.
KeysOf(roleinfo) ==
  Range(roleinfo.keyids) \cup Range(roleinfo.signing_keyids)
    \cup UNION {Range(roleinfo.delegations[i].keyids) : i \in DOMAIN roleinfo.delegations}

Unsupported(keypath) ==
  /\ KeyFile(keypath).fmt = "enc"
  /\ KeyFile(keypath).keytype \notin SUPPORTED_KEY_TYPES

\* The action that has run was given a key file of an unsupported type.
UnsupportedKeyGiven ==
  \/ Last = "trust" /\ \E i \in DOMAIN args.pubkeys : Unsupported(args.pubkeys[i])
  \/ Last = "sign" /\ Unsupported(args.sign)

\* C19: every key of every role is an ed25519, ecdsa-sha2-nistp256 or rsa
\* key, in the role database and in the staged and live directories; an
\* action given a private or public key of another type ends with an error.
SupportedKeysOnly ==
  /\ \A r \in DOMAIN roledb : \A k \in KeysOf(roledb[r]) :
       KeyFile(k).keytype \in SUPPORTED_KEY_TYPES
  /\ \A tree \in {staged, live} : \A r \in DOMAIN tree :
       /\ \A k \in Range(tree[r].signatures) : KeyFile(k).keytype \in SUPPORTED_KEY_TYPES
       /\ \A i \in DOMAIN tree[r].delegations : \A k \in Range(tree[r].delegations[i].keyids) :
            KeyFile(k).keytype \in SUPPORTED_KEY_TYPES
       /\ \A t \in DOMAIN tree[r].roles : \A k \in Range(tree[r].roles[t].keyids) :
            KeyFile(k).keytype \in SUPPORTED_KEY_TYPES
  /\ UnsupportedKeyGiven => (pc = "exit" /\ outcome \in {"error", "crash"} /\ exitcode = 1)

\* sign_role loaded the repository and was refused the key of type dsa.
UnsupportedKeyRefused ==
  /\ Last = "sign"
  /\ args.sign = "dsa"
  /\ outcome = "error"
  /\ TopLevel \subseteq DOMAIN staged
  /\ TopKeyFiles \subseteq keystore

-----------------------------------------------------------------------------
(* Versions. *)

\* C20: a release never puts a role into the live directory with a smaller
\* version than the role had there before the action.
VersionsNeverDecrease ==
  [][Copytree => \A r \in DOMAIN pre.live \cap DOMAIN live' :
                   live'[r].version >= pre.live[r].version]_vars

-----------------------------------------------------------------------------
(* Two invocations of repo.py at once on one repository directory. *)

Writers == {1, 2}

Other(w) == IF w = 1 THEN 2 ELSE 1

\* The command lines of the two writers: --add a, --add b, --remove "*".
WriterArgs ==
  {[NoArgs EXCEPT !.add = <<p>>] : p \in Paths}
    \cup {[NoArgs EXCEPT !.remove = << <<"*">> >>]}

\* In this specification pc, args, cur, outcome and pre are per writer: cur
\* counts the files copytree has copied, pre holds the directories as the
\* writer found them at write_to_live_repo. The role and key databases of
\* the writers are not kept: each writer loads, changes and writes the
\* staged directory in one step.
InitWriters ==
  /\ staged = Initialized
  /\ live = Initialized
  /\ keystore = TopKeyFiles
  /\ client = TRUE
  /\ roledb = Empty
  /\ keydb = Empty
  /\ dirty = {}
  /\ args \in [Writers -> WriterArgs]
  /\ pc = [w \in Writers |-> "dispatch"]
  /\ cur = [w \in Writers |-> 0]
  /\ outcome = [w \in Writers |-> "none"]
  /\ exitcode = -1
  /\ pre = [w \in Writers |-> [staged |-> Initialized, live |-> Initialized]]
  /\ start = [staged |-> Initialized, live |-> Initialized]
  /\ ncmds = 0
  /\ nkills = 0
  /\ writes = <<>>

WritersFrame == UNCHANGED <<keystore, client, roledb, keydb, dirty, args, exitcode,
                            start, ncmds, nkills, writes>>

\* add_targets or remove_targets up to write_to_live_repo.
StageBy(w) ==
  /\ pc[w] = "dispatch"
  /\ LET ps == IF args[w].add # <<>>
                 THEN add_targets(args[w], Starting(staged), keystore)
                 ELSE remove_targets(args[w], Starting(staged), keystore)
     IN  /\ staged' = ps.staged
         /\ pre' = [pre EXCEPT ![w] = [staged |-> ps.staged, live |-> live]]
         /\ pc' = [pc EXCEPT ![w] = IF ps.err = "none" THEN "rmtree" ELSE "exit"]
         /\ outcome' = [outcome EXCEPT ![w] = IF ps.err = "none" THEN "none" ELSE "error"]
  /\ UNCHANGED <<live, cur>>
  /\ WritersFrame

\* shutil.rmtree(live_meta_directory, ignore_errors=True), line 502.
RmtreeBy(w) ==
  /\ pc[w] = "rmtree"
  /\ live' = Empty
  /\ pc' = [pc EXCEPT ![w] = "copytree"]
  /\ UNCHANGED <<staged, cur, outcome, pre>>
  /\ WritersFrame

\* A copytree that copies its first file over and over.
FirstFileAgain(n) ==
  CHOOSE f \in FirstFiles(staged, RoleOrder, 1) : TRUE

\* The file copytree copies after n files.
NextFile(n) ==
  CHOOSE f \in FirstFiles(staged, RoleOrder, n + 1) \ FirstFiles(staged, RoleOrder, n) : TRUE

\* shutil.copytree(staged, live), line 503, file by file: it makes the live
\* directory, which must not exist, with its first file, and raises when the
\* directory it copies into is gone.
CopyBy(w) ==
  /\ pc[w] = "copytree"
  /\ IF (cur[w] = 0) # (live = Empty)
       THEN /\ pc' = [pc EXCEPT ![w] = "exit"]
            /\ outcome' = [outcome EXCEPT ![w] = "crash"]
            /\ UNCHANGED <<live, cur>>
       ELSE /\ live' = Put(live, NextFile(cur[w]), staged[NextFile(cur[w])])
            /\ cur' = [cur EXCEPT ![w] = @ + 1]
            /\ IF cur[w] + 1 = Cardinality(DOMAIN staged)
                 THEN /\ pc' = [pc EXCEPT ![w] = "exit"]
                      /\ outcome' = [outcome EXCEPT ![w] = "ok"]
                 ELSE UNCHANGED <<pc, outcome>>
  /\ UNCHANGED <<staged, pre>>
  /\ WritersFrame

NextWriters == \E w \in Writers : StageBy(w) \/ RmtreeBy(w) \/ CopyBy(w)

ConcurrentSpec == InitWriters /\ [][NextWriters]_vars

\* C21: a writer that ran from start to end while the other had not started
\* leaves its staged tree in the live directory; with both writers running,
\* the live tree may be none of the two staged trees and not the previous
\* live tree (TornByTwoWriters).
SingleWriterPublishes ==
  \A w \in Writers :
    (pc[w] = "exit" /\ pc[Other(w)] = "dispatch")
      => (outcome[w] = "ok" /\ live = pre[w].staged /\ live = staged)

\* A writer has ended without an error, the other is at write_to_live_repo,
\* and the live tree, with all its files, is neither writer's staged tree
\* nor the live tree from before.
TornByTwoWriters ==
  \E w \in Writers :
    /\ pc[w] = "exit" /\ outcome[w] = "ok"
    /\ pc[Other(w)] = "rmtree"
    /\ DOMAIN live = DOMAIN staged
    /\ live # pre[w].staged
    /\ live # pre[Other(w)].staged
    /\ live # start.live

-----------------------------------------------------------------------------
(* Exit codes. *)

\* C22: a process that has exited has exit code 1 when one of its actions
\* ended with an error, reported or not, and exit code 0 when none did.
ExitCodeTellsOutcome ==
  pc = "exit" => \/ outcome \in {"error", "crash"} /\ exitcode = 1
                 \/ outcome \in {"ok", "none"} /\ exitcode = 0

\* --trust without --pubkeys on an initialised repository ended with exit
\* code 1.
TrustWithoutPubkeysExited ==
  /\ pc = "exit"
  /\ Last = "trust"
  /\ args.pubkeys = <<>>
  /\ exitcode = 1
  /\ TopLevel \subseteq DOMAIN live

-----------------------------------------------------------------------------
(* C23: the order of writes before a publish. *)

\* The dirty role r was written to staging before snapshot and timestamp,
\* the last two writes of the action.
WrittenBeforeSnapshot(r) ==
  \E i \in 1..(Len(writes) - 2) : writes[i] = r

\* C23: whenever an action reaches write_to_live_repo, every role it marked
\* dirty has been written to staging, then snapshot, then timestamp, which
\* are the last two writes.
PublishAfterStaging ==
  pc = "rmtree" =>
    /\ Len(writes) >= 2
    /\ writes[Len(writes)] = "timestamp"
    /\ writes[Len(writes) - 1] = "snapshot"
    /\ \A r \in (dirty \cap DOMAIN roledb) \ {"snapshot", "timestamp"} :
         WrittenBeforeSnapshot(r)

-----------------------------------------------------------------------------
(* C24: where roles come from. *)

\* C24: as long as no action has failed, every role of the role database
\* that is not a top-level role is named by a delegation entry of a role
\* that a chain of delegations from targets reaches.
RolesAreDelegated ==
  outcome \in {"none", "ok"} =>
    \A r \in DOMAIN roledb \ TopLevel : r \in Reachable(roledb)

-----------------------------------------------------------------------------
(* C25: what a delegation adds. *)

\* delegate has reached write_to_live_repo.
JustDelegated == Last = "delegate" /\ pc = "rmtree"

\* The role database load_repository built when the last action started.
LoadedBefore == load_repository(Entering(pre.staged, 0)).roledb

\* The key identifiers of the files given with --pubkeys, in their order.
SuppliedKeyids == [i \in DOMAIN args.pubkeys |-> KeyFile(args.pubkeys[i]).keyid]

\* The entry the command line describes.
SuppliedEntry ==
  [name |-> args.delegatee, keyids |-> SuppliedKeyids, threshold |-> args.threshold,
   terminating |-> args.terminating, paths |-> args.delegate]

\* C25: a delegate that succeeds has appended to the table of --role one
\* entry with the delegatee, key identifiers, threshold, terminating flag
\* and path patterns of the command line, after the entries the table had,
\* left the table of every other role as it was, and marked --role dirty.
DelegateAppendsOneEntry ==
  JustDelegated =>
    /\ args.role \in DOMAIN LoadedBefore
    /\ roledb[args.role].delegations =
         Append(LoadedBefore[args.role].delegations, SuppliedEntry)
    /\ staged[args.role].delegations = roledb[args.role].delegations
    /\ \A r \in DOMAIN LoadedBefore \ {args.role} :
         /\ r \in DOMAIN roledb
         /\ roledb[r].delegations = LoadedBefore[r].delegations
    /\ \A r \in DOMAIN roledb \ DOMAIN LoadedBefore :
         r = args.delegatee /\ roledb[r].delegations = <<>>
    /\ args.role \in dirty

\* A terminating delegation was appended to a table that had an entry.
SecondEntryAppended ==
  /\ JustDelegated
  /\ args.terminating
  /\ Len(LoadedBefore[args.role].delegations) >= 1
  /\ Len(roledb[args.role].delegations) = Len(LoadedBefore[args.role].delegations) + 1

-----------------------------------------------------------------------------
(* C26: the version a command publishes. *)

\* The action last started has reached write_to_live_repo, it started from
\* a published repository, and role r was part of it.
Republishes(name, r) ==
  /\ Last = name
  /\ pc = "rmtree"
  /\ pre.live = pre.staged
  /\ r \in DOMAIN pre.live
  /\ r \in DOMAIN staged

\* An add that changed the path map of --role.
AddedPaths ==
  /\ Republishes("add", args.role)
  /\ staged[args.role].paths # pre.live[args.role].paths

\* The version of role r that is about to be published, over the published one.
VersionStep(r) == staged[r].version - pre.live[r].version

AddRaisesByOne == AddedPaths => VersionStep(args.role) = 1

SignKeepsVersion == Republishes("sign", args.role) => VersionStep(args.role) = 0

TrustKeepsVersion == Republishes("trust", "root") => VersionStep("root") = 0

\* C26: an add that changed --role publishes it one version higher, a sign
\* publishes --role, and a trust publishes root, at the version it had.
VersionAsRequested == AddRaisesByOne /\ SignKeepsVersion /\ TrustKeepsVersion

-----------------------------------------------------------------------------
(* C27: several action flags in one command line. *)

\* The value each action flag is given, with the options its action reads.
FlagNames == {"init", "clean", "add", "remove", "trust", "sign", "key", "delegate", "revoke"}

CommandLine(flags) ==
  [NoArgs EXCEPT !.init = "init" \in flags,
                 !.clean = IF "clean" \in flags THEN "." ELSE "None",
                 !.add = IF "add" \in flags THEN <<<<"a">>>> ELSE <<>>,
                 !.remove = IF "remove" \in flags THEN <<<<"*">>>> ELSE <<>>,
                 !.trust = "trust" \in flags,
                 !.sign = IF "sign" \in flags THEN "." ELSE "None",
                 !.key = IF "key" \in flags THEN "ed25519" ELSE "None",
                 !.delegate = IF "delegate" \in flags THEN <<"*">> ELSE <<>>,
                 !.revoke = "revoke" \in flags,
                 !.delegatee = IF flags \cap {"delegate", "revoke"} # {} THEN "dist" ELSE "",
                 !.pubkeys = IF flags \cap {"trust", "delegate"} # {} THEN <<"k1">> ELSE <<>>]

CommandLines == {CommandLine(flags) : flags \in SUBSET FlagNames}

\* One process, started with any combination of the action flags, in an
\* empty directory or in a repository that repo.py --init has made.
InitOrder ==
  /\ staged \in {Empty, Initialized}
  /\ live = staged
  /\ keystore = (IF staged = Empty THEN {} ELSE TopKeyFiles)
  /\ client = (staged # Empty)
  /\ roledb = Empty
  /\ keydb = Empty
  /\ dirty = {}
  /\ args \in CommandLines
  /\ pc = "dispatch"
  /\ cur = 0
  /\ outcome = "none"
  /\ exitcode = -1
  /\ pre = [staged |-> staged, live |-> live]
  /\ start = [staged |-> staged, live |-> live]
  /\ ncmds = 1
  /\ nkills = 0
  /\ writes = <<>>

NextOrder ==
  \/ InitRepo
  \/ CleanRepo
  \/ AddTargets
  \/ RemoveTargets
  \/ AddVerificationKey
  \/ SignRole
  \/ GenKey
  \/ Delegate
  \/ Revoke
  \/ Rmtree
  \/ Copytree
  \/ Exit

OrderSpec == InitOrder /\ [][NextOrder]_vars

\* The order the actions are said to run in.
ClaimedOrder ==
  <<"init", "clean", "add", "remove", "trust", "sign", "key", "delegate", "revoke">>

\* The place of an action in that order (0: no action has started).
Position(name) ==
  IF name = "none" THEN 0
  ELSE CHOOSE i \in DOMAIN ClaimedOrder : ClaimedOrder[i] = name

\* The flagged actions that come after the action last started.
StillToRun ==
  {i \in DOMAIN ClaimedOrder : i > Position(Last) /\ Flagged(args, ClaimedOrder[i])}

\* C27: an action starts only when the one before it has returned without
\* error and its release, if it made one, is in the live directory; it is
\* the first flagged action after the last one in the order init, clean,
\* add, remove, trust, sign, key, delegate, revoke (so that sign comes
\* before a delegate or revoke given with --sign); and the process exits
\* with success only when no flagged action is left.
ActionsRunInOrder ==
  [][/\ cur' # cur =>
          /\ pc = "dispatch"
          /\ outcome \in {"none", "ok"}
          /\ Last \in {"init", "add", "remove", "trust", "sign", "delegate"} =>
               live = staged
          /\ StillToRun # {}
          /\ Position(Last') = Min(StillToRun)
          /\ args' = args
     /\ pc = "dispatch" /\ pc' = "exit" /\ cur' = cur => StillToRun = {}
     /\ outcome \in {"error", "crash"} => cur' = cur]_vars

\* sign, delegate and revoke, given together, have run one after the other.
SignedDelegatedRevoking ==
  /\ args.sign # "None"
  /\ args.delegate # <<>>
  /\ Last = "revoke"
  /\ pc = "rmtree"

\* An action failed and the flagged action after it has not run.
LaterActionPrevented ==
  /\ pc = "exit"
  /\ outcome \in {"error", "crash"}
  /\ StillToRun # {}

-----------------------------------------------------------------------------
(* C28: what clean deletes. *)

\* C28: clean succeeds whatever the directories hold; given no directory it
\* leaves the working directory without repository, client and keystore
\* directories, and given another directory it leaves those of the working
\* directory, which lies outside the directory given, as they were.
CleanOnlyUnderGivenDirectory ==
  [][Running("clean") /\ cur' # cur =>
       /\ outcome' = "ok"
       /\ args.clean = "." =>
            staged' = Empty /\ live' = Empty /\ keystore' = {} /\ client' = FALSE
       /\ args.clean # "." =>
            UNCHANGED <<staged, live, keystore, client>>]_vars

=============================================================================
